---- MODULE Spec2Model ----
(***************************************************************************)
(* Swiss-system tournament pairing (src/tournament.py).                    *)
(*                                                                         *)
(* The database is the state: the players table (serial ids 1..players and *)
(* the had_bye column) and the matches table (a bag of <<winner, loser>>   *)
(* records, loser = None for a bye).  swissPairings is modelled in two     *)
(* kinds of step: its prologue up to and including the evenness pass, and  *)
(* one step per iteration of its resolve-and-repair while loop.  Player    *)
(* names carry no logic: a pairing (id1, name1, id2, name2) is modelled as *)
(* <<id1, id2>>.  Row order of a query without a total ORDER BY is         *)
(* unspecified in SQL and is modelled as a nondeterministic choice, and so *)
(* is random.shuffle.                                                      *)
(*                                                                         *)
(* status names how the call ended: "pairings" (a list is returned),       *)
(* "IncompleteRound", "TournamentDecided" and "UnresolvablePairing" (the   *)
(* three places that print a message and return None), or the exception    *)
(* that left the call ("IndexError", "TypeError", "ValueError").           *)
(*                                                                         *)
(* Four specifications: Spec and SpecBig are a tournament run by a driver  *)
(* that reports exactly the pairings it was given; SpecFree is any caller  *)
(* of registerPlayer, reportMatch, deleteMatches and swissPairings;        *)
(* SpecAllPairs drives the generator all_pairs alone.  deletePlayers is    *)
(* left out (serial ids are never reused, so it only starts over), and     *)
(* reportMatch is given registered ids, two different ones for a match.    *)
(***************************************************************************)
EXTENDS Integers, Sequences, FiniteSets, Bags, TLC

VARIABLES
    players,        \* number of rows of the players table; ids are 1..players
    had_bye,        \* set of ids whose had_bye column is TRUE
    matches,        \* the matches table: a bag of <<winner_pid, loser_pid>>
    pc,             \* "idle", or "resolve" inside swissPairings' while loop
    win_groups,     \* swissPairings' local win_groups (kept until discarded)
    pairings,       \* swissPairings' local pairings, then the list returned
    status,         \* outcome of the call that just returned, or "none"
    bye_player_id,  \* swissPairings' local bye_player_id, None if not set
    moves,          \* number of move_item_to_list calls made by the call
    todo,           \* tournament driver: returned pairings not yet reported
    ap_lst,         \* all_pairs: the argument lst
    ap_out,         \* all_pairs: the results yielded so far, in order
    ap_state        \* all_pairs: "off", "running", "raised" or "exhausted"

vars == <<players, had_bye, matches, pc, win_groups, pairings, status,
          bye_player_id, moves, todo, ap_lst, ap_out, ap_state>>

dbVars == <<players, had_bye, matches>>
callVars == <<pc, win_groups, pairings, status, bye_player_id, moves>>
apVars == <<ap_lst, ap_out, ap_state>>

\* Bounds of the model: players and rounds of a driven tournament, of the
\* larger driven tournament, players and match records under any caller,
\* and the length of the list given to all_pairs.
MaxPlayers == 5
MaxRounds == 3
BigPlayers == 6
BigRounds == 3
FreePlayers == 3
FreeMatches == 4
MaxLen == 6

\* Python None / SQL NULL in loser_pid and bye_player_id; serial ids start at 1.
None == 0
\* The None returned as error_in_group by generate_pairings on success.
NoIdx == 0 - 1

Ids == 1..players

----------------------------------------------------------------------------
\* Generic sequence helpers (list.pop(i), del list[i], sum, permutations).

RemoveAt(s, i) == SubSeq(s, 1, i - 1) \o SubSeq(s, i + 1, Len(s))

RECURSIVE Flatten(_)
Flatten(ss) == IF ss = <<>> THEN <<>> ELSE Head(ss) \o Flatten(Tail(ss))

RECURSIVE Perms(_)
Perms(S) ==
    IF S = {} THEN {<<>>}
    ELSE UNION {{<<x>> \o p : p \in Perms(S \ {x})} : x \in S}

Range(s) == {s[i] : i \in DOMAIN s}

----------------------------------------------------------------------------
\* all_pairs(lst)

\* reversed(xrange(1, list_length, 2)): the sizes k of the ranges xrange(k).
RECURSIVE RangeSizes(_)
RangeSizes(list_length) ==
    IF list_length < 2 THEN <<>>
    ELSE <<list_length - 1>> \o RangeSizes(list_length - 2)

\* itertools.product(*[xrange(k) for k in ks]) in the order product yields:
\* the first coordinate varies slowest.
RECURSIVE Product(_)
Product(ks) ==
    IF ks = <<>> THEN << <<>> >>
    ELSE LET rest == Product(Tail(ks))
             block(c) == [j \in 1..Len(rest) |-> <<c>> \o rest[j]]
         IN  Flatten([c1 \in 1..Head(ks) |-> block(c1 - 1)])

\* Mutant: the product stops after its first element.
choice_indices_first(list_length) ==
    <<Product(RangeSizes(list_length))[1]>>

choice_indices(list_length) == Product(RangeSizes(list_length))

\* Mutant: pop(index) is taken from the list before pop(0) shortened it.
RECURSIVE PairsOfChoice_noshift(_, _)
PairsOfChoice_noshift(tmp, choice) ==
    IF choice = <<>> THEN <<>>
    ELSE LET first == Head(tmp)
             second == tmp[Head(choice) + 1]
             tmp2 == RemoveAt(Tail(tmp), Head(choice) + 1)
         IN  << <<first, second>> >> \o PairsOfChoice_noshift(tmp2, Tail(choice))

\* The body of "for choice in choice_indices": consume tmp two items at a
\* time, tmp.pop(0) then tmp.pop(index).
RECURSIVE PairsOfChoice(_, _)
PairsOfChoice(tmp, choice) ==
    IF choice = <<>> THEN <<>>
    ELSE LET first == Head(tmp)
             tmp1 == Tail(tmp)
             second == tmp1[Head(choice) + 1]
             tmp2 == RemoveAt(tmp1, Head(choice) + 1)
         IN  << <<first, second>> >> \o PairsOfChoice(tmp2, Tail(choice))

\* What the generator does over its life: raise ValueError on an odd list,
\* otherwise yield one list of pairs per choice.
all_pairs(lst) ==
    IF Len(lst) % 2 # 0
    THEN [raised |-> TRUE, yields |-> <<>>]
    ELSE LET ci == choice_indices(Len(lst))
         IN  [raised |-> FALSE,
              yields |-> [j \in 1..Len(ci) |-> PairsOfChoice(lst, ci[j])]]

----------------------------------------------------------------------------
\* The generator all_pairs driven on its own, one next() per step.

IdleCall ==
    /\ pc = "idle" /\ win_groups = <<>> /\ pairings = <<>> /\ status = "none"
    /\ bye_player_id = None /\ moves = 0

EmptyDb == players = 0 /\ had_bye = {} /\ matches = EmptyBag

InitAllPairs ==
    /\ EmptyDb /\ IdleCall /\ todo = <<>>
    /\ ap_lst \in UNION {Perms(S) : S \in SUBSET (1..MaxLen)}
    /\ ap_out = <<>>
    /\ ap_state = "running"

all_pairs_raise ==
    /\ ap_state = "running"
    /\ all_pairs(ap_lst).raised
    /\ ap_state' = "raised"
    /\ UNCHANGED <<dbVars, callVars, todo, ap_lst, ap_out>>

all_pairs_yield ==
    /\ ap_state = "running"
    /\ ~all_pairs(ap_lst).raised
    /\ Len(ap_out) < Len(all_pairs(ap_lst).yields)
    /\ ap_out' = Append(ap_out, all_pairs(ap_lst).yields[Len(ap_out) + 1])
    /\ UNCHANGED <<dbVars, callVars, todo, ap_lst, ap_state>>

all_pairs_stop ==
    /\ ap_state = "running"
    /\ ~all_pairs(ap_lst).raised
    /\ Len(ap_out) = Len(all_pairs(ap_lst).yields)
    /\ ap_state' = "exhausted"
    /\ UNCHANGED <<dbVars, callVars, todo, ap_lst, ap_out>>

NextAllPairs == all_pairs_raise \/ all_pairs_yield \/ all_pairs_stop

SpecAllPairs == InitAllPairs /\ [][NextAllPairs]_vars

----------------------------------------------------------------------------
\* Queries on the database.

Records == DOMAIN matches

\* wins and matches columns of playerStandings: the number of matches the
\* player has won, and the number of matches the player has played.
RECURSIVE TotalCopies(_)
TotalCopies(R) ==
    IF R = {} THEN 0
    ELSE LET r == CHOOSE x \in R : TRUE
         IN  matches[r] + TotalCopies(R \ {r})

Wins(id) == TotalCopies({r \in Records : r[1] = id})

Played(id) == TotalCopies({r \in Records : r[1] = id \/ r[2] = id})

MaxOf(S) == CHOOSE x \in S : \A y \in S : y <= x
MinOf(S) == CHOOSE x \in S : \A y \in S : x <= y

\* Mutant: the query misses the OR branch with the players swapped.
check_for_rematch_oneway(player_id1, player_id2) ==
    \E r \in Records : r[1] = player_id1 /\ r[2] = player_id2

\* SELECT EXISTS(... winner_pid=id1 AND loser_pid=id2
\*                OR winner_pid=id2 AND loser_pid=id1)
check_for_rematch(player_id1, player_id2) ==
    \E r \in Records :
        \/ r[1] = player_id1 /\ r[2] = player_id2
        \/ r[1] = player_id2 /\ r[2] = player_id1

\* The rows select_player_for_bye's query can put first: had_bye = FALSE,
\* ORDER BY wins (rows of equal wins come in any order).
select_player_for_bye ==
    LET rows == Ids \ had_bye
    IN  {id \in rows : \A other \in rows : Wins(id) <= Wins(other)}

\* The lists the loop "for wins in xrange(0, max_num_wins + 1)" can build
\* from wins upwards: each query returns its ids in some order.
RECURSIVE WinGroupOrders(_, _)
WinGroupOrders(wins, max_num_wins) ==
    IF wins > max_num_wins THEN {<<>>}
    ELSE {<<res>> \o rest :
             res \in Perms({id \in Ids : Wins(id) = wins}),
             rest \in WinGroupOrders(wins + 1, max_num_wins)}

----------------------------------------------------------------------------
\* Mutant: the item goes the other way, from the target list up to the
\* next list.
move_item_to_list_up(list_of_lists, target_list_idx) ==
    IF target_list_idx + 2 > Len(list_of_lists)
    THEN [raised |-> TRUE, lol |-> list_of_lists]
    ELSE LET target == list_of_lists[target_list_idx + 1]
         IN  IF target = <<>>
             THEN [raised |-> TRUE, lol |-> list_of_lists]
             ELSE [raised |-> FALSE,
                   lol |-> [list_of_lists EXCEPT
                               ![target_list_idx + 1] = Tail(target),
                               ![target_list_idx + 2] = Append(@, Head(target))]]

\* move_item_to_list(list_of_lists, target_list_idx); indexes are the
\* code's (from 0).  raised: IndexError, raised by the function itself or by
\* pop(0) on an empty next list.
move_item_to_list(list_of_lists, target_list_idx) ==
    IF target_list_idx + 2 > Len(list_of_lists)
    THEN [raised |-> TRUE, lol |-> list_of_lists]
    ELSE LET next == list_of_lists[target_list_idx + 2]
         IN  IF next = <<>>
             THEN [raised |-> TRUE, lol |-> list_of_lists]
             ELSE LET moved == [list_of_lists EXCEPT
                                   ![target_list_idx + 1] = Append(@, Head(next)),
                                   ![target_list_idx + 2] = Tail(next)]
                  IN  [raised |-> FALSE,
                       lol |-> IF Tail(next) = <<>>
                               THEN RemoveAt(moved, target_list_idx + 2)
                               ELSE moved]

\* Mutant: the parity test is inverted, so even groups borrow.
RECURSIVE EvennessPass_even(_, _, _, _)
EvennessPass_even(wg, i, stop, n) ==
    IF i >= stop THEN [raised |-> FALSE, lol |-> wg, moves |-> n]
    ELSE IF i + 1 > Len(wg) THEN [raised |-> TRUE, lol |-> wg, moves |-> n]
    ELSE IF Len(wg[i + 1]) % 2 = 0
         THEN LET m == move_item_to_list(wg, i)
              IN  IF m.raised
                  THEN [raised |-> TRUE, lol |-> wg, moves |-> n + 1]
                  ELSE EvennessPass_even(m.lol, i + 1, stop, n + 1)
         ELSE EvennessPass_even(wg, i + 1, stop, n)

\* "for i in xrange(0, len(win_groups))" from i on; stop is the length the
\* list had when the loop started.  raised: IndexError from win_groups[i]
\* or from move_item_to_list.
RECURSIVE EvennessPass(_, _, _, _)
EvennessPass(wg, i, stop, n) ==
    IF i >= stop THEN [raised |-> FALSE, lol |-> wg, moves |-> n]
    ELSE IF i + 1 > Len(wg) THEN [raised |-> TRUE, lol |-> wg, moves |-> n]
    ELSE IF Len(wg[i + 1]) % 2 # 0
         THEN LET m == move_item_to_list(wg, i)
              IN  IF m.raised
                  THEN [raised |-> TRUE, lol |-> wg, moves |-> n + 1]
                  ELSE EvennessPass(m.lol, i + 1, stop, n + 1)
         ELSE EvennessPass(wg, i + 1, stop, n)

\* The first list of pairs all_pairs yields that contains no rematch, as an
\* index into the yields; 0 if there is none (win_group_success is False).
FirstWithoutRematch(yields) ==
    LET good == {j \in 1..Len(yields) :
                    \A k \in 1..Len(yields[j]) :
                        ~check_for_rematch(yields[j][k][1], yields[j][k][2])}
    IN  IF good = {} THEN 0 ELSE MinOf(good)

\* Mutant: the pairings list is emptied at every win group.
RECURSIVE GeneratePairingsFrom_reset(_, _, _)
GeneratePairingsFrom_reset(wg, idx, acc) ==
    IF idx >= Len(wg)
    THEN [valueError |-> FALSE, pairings |-> acc, idx |-> NoIdx]
    ELSE LET ap == all_pairs(wg[idx + 1])
             j == FirstWithoutRematch(ap.yields)
         IN  IF ap.raised
             THEN [valueError |-> TRUE, pairings |-> <<>>, idx |-> idx]
             ELSE IF j = 0
             THEN [valueError |-> FALSE, pairings |-> <<>>, idx |-> idx]
             ELSE GeneratePairingsFrom_reset(wg, idx + 1, ap.yields[j])

\* generate_pairings from win group idx on, acc the pairings so far.
\* valueError: all_pairs raised.  idx = NoIdx on success.
RECURSIVE GeneratePairingsFrom(_, _, _)
GeneratePairingsFrom(wg, idx, acc) ==
    IF idx >= Len(wg)
    THEN [valueError |-> FALSE, pairings |-> acc, idx |-> NoIdx]
    ELSE LET ap == all_pairs(wg[idx + 1])
             j == FirstWithoutRematch(ap.yields)
         IN  IF ap.raised
             THEN [valueError |-> TRUE, pairings |-> <<>>, idx |-> idx]
             ELSE IF j = 0
             THEN [valueError |-> FALSE, pairings |-> <<>>, idx |-> idx]
             ELSE GeneratePairingsFrom(wg, idx + 1, acc \o ap.yields[j])

generate_pairings(wg) == GeneratePairingsFrom(wg, 0, <<>>)

\* random_pairing on the standings as shuffled.
random_pairing(shuffled) ==
    LET n == Len(shuffled)
    IN  IF n % 2 # 0
        THEN << <<shuffled[1], shuffled[1]>> >> \o
             [k \in 1..((n - 1) \div 2) |-> <<shuffled[2 * k], shuffled[2 * k + 1]>>]
        ELSE [k \in 1..(n \div 2) |-> <<shuffled[2 * k - 1], shuffled[2 * k]>>]

\* "win_group.remove(bye_player_id); break" on the first group holding it.
RECURSIVE RemoveBye(_, _)
RemoveBye(wg, id) ==
    IF wg = <<>> THEN <<>>
    ELSE LET g == Head(wg)
             at == {k \in 1..Len(g) : g[k] = id}
         IN  IF at # {} THEN <<RemoveAt(g, MinOf(at))>> \o Tail(wg)
             ELSE <<g>> \o RemoveBye(Tail(wg), id)

\* Mutant: the first win group is taken for the top one.
TopGroup_first(wg) == wg[1]

\* win_groups[-1:][0]
TopGroup(wg) == wg[Len(wg)]

----------------------------------------------------------------------------
\* swissPairings.

Locals(p, wg, prs, st, bye, n) ==
    [pc |-> p, win_groups |-> wg, pairings |-> prs, status |-> st,
     bye_player_id |-> bye, moves |-> n]

\* A return without a pairing list (return None, or an exception leaving
\* the call); the locals are kept for inspection until the next operation.
Failure(st, wg, bye, n) == Locals("idle", wg, <<>>, st, bye, n)

\* Lines 182-201: the bye, then the evenness pass, given the win groups as
\* the queries returned them and the row select_player_for_bye fetched.
ByeAndEvenness(wg, bye) ==
    LET groups == IF bye = None THEN wg ELSE RemoveBye(wg, bye)
        prs == IF bye = None THEN <<>> ELSE << <<bye, bye>> >>
        ev == EvennessPass(groups, 0, Len(groups), 0)
    IN  IF ev.raised THEN Failure("IndexError", groups, bye, ev.moves)
        ELSE Locals("resolve", ev.lol, prs, "none", bye, ev.moves)

\* Lines 164-201 for one outcome of the queries.
AfterStandings(wg, bye) ==
    IF Len(TopGroup(wg)) = 1
    THEN Failure("TournamentDecided", wg, None, 0)
    ELSE IF players % 2 # 0
    THEN IF bye = None
         THEN Failure("TypeError", wg, None, 0)
         ELSE ByeAndEvenness(wg, bye)
    ELSE ByeAndEvenness(wg, None)

\* What fetchone()[0] can give select_player_for_bye's caller; None stands
\* for the empty result, on which the subscript raises TypeError.
ByeRows ==
    IF players % 2 = 0 \/ select_player_for_bye = {} THEN {None}
    ELSE select_player_for_bye

\* Lines 145-201: every way the prologue of swissPairings can end.
swissPairingsPrologue ==
    LET played == {Played(id) : id \in Ids}
    IN  IF \A id \in Ids : Played(id) = 0
        THEN {Locals("idle", <<>>, random_pairing(shuffled), "pairings", None, 0) :
                 shuffled \in Perms(Ids)}
        ELSE IF MaxOf(played) # MinOf(played)
        THEN {Failure("IncompleteRound", <<>>, None, 0)}
        ELSE {AfterStandings(wg, bye) :
                 wg \in WinGroupOrders(0, MaxOf({Wins(id) : id \in Ids})),
                 bye \in ByeRows}

\* Lines 205-219: one iteration of the while loop.
LoopIteration ==
    LET g == generate_pairings(win_groups)
        m1 == move_item_to_list(win_groups, g.idx)
        m2 == move_item_to_list(m1.lol, g.idx)
    IN  IF g.valueError
        THEN Failure("ValueError", win_groups, bye_player_id, moves)
        ELSE IF g.idx = NoIdx
        THEN Locals("idle", win_groups, pairings \o g.pairings, "pairings",
                    bye_player_id, moves)
        ELSE IF g.idx + 2 > Len(win_groups)
        THEN Failure("UnresolvablePairing", win_groups, bye_player_id, moves)
        ELSE IF m1.raised
        THEN Failure("IndexError", win_groups, bye_player_id, moves + 1)
        ELSE IF m2.raised
        THEN Failure("IndexError", m1.lol, bye_player_id, moves + 2)
        ELSE Locals("resolve", m2.lol, pairings, "none", bye_player_id, moves + 2)

SetLocals(l) ==
    /\ pc' = l.pc
    /\ win_groups' = l.win_groups
    /\ pairings' = l.pairings
    /\ status' = l.status
    /\ bye_player_id' = l.bye_player_id
    /\ moves' = l.moves

\* The caller drops what the previous call returned.
Discard == SetLocals(Locals("idle", <<>>, <<>>, "none", None, 0))

\* On a return with a pairing list the caller takes it as its to-do list.
Hand(l) == todo' = IF l.status = "pairings" THEN l.pairings ELSE <<>>

swissPairings ==
    /\ pc = "idle"
    /\ \E l \in swissPairingsPrologue : SetLocals(l) /\ Hand(l)
    /\ UNCHANGED <<dbVars, apVars>>

swissPairingsLoop ==
    /\ pc = "resolve"
    /\ SetLocals(LoopIteration)
    /\ Hand(LoopIteration)
    /\ UNCHANGED <<dbVars, apVars>>

----------------------------------------------------------------------------
\* The other operations.

registerPlayer(limit) ==
    /\ pc = "idle"
    /\ players < limit
    /\ players' = players + 1
    /\ Discard
    /\ todo' = <<>>
    /\ UNCHANGED <<had_bye, matches, apVars>>

deleteMatches ==
    /\ pc = "idle"
    /\ matches # EmptyBag
    /\ matches' = EmptyBag
    /\ Discard
    /\ todo' = <<>>
    /\ UNCHANGED <<players, had_bye, apVars>>

\* Mutant: had_bye is not looked at.
reportMatch_nocheck(winner, loser) ==
    /\ had_bye' = IF loser = None THEN had_bye \cup {winner} ELSE had_bye
    /\ matches' = matches (+) SetToBag({<<winner, loser>>})

\* reportMatch(winner, loser=None): its effect on the database.
reportMatch(winner, loser) ==
    IF loser = None /\ winner \in had_bye
    THEN UNCHANGED <<had_bye, matches>>
    ELSE /\ had_bye' = IF loser = None THEN had_bye \cup {winner} ELSE had_bye
         /\ matches' = matches (+) SetToBag({<<winner, loser>>})

\* Any report at all, of a match between two registered players or of a bye.
reportAnyMatch ==
    /\ pc = "idle"
    /\ BagCardinality(matches) < FreeMatches
    /\ \E winner \in Ids, loser \in Ids \cup {None} :
          /\ winner # loser
          /\ reportMatch(winner, loser)
    /\ Discard
    /\ todo' = <<>>
    /\ UNCHANGED <<players, apVars>>

\* The tournament driver reports the next pairing of the list it was given,
\* with either player as the winner; a bye pairing is reported as a bye.
reportPairing(rounds) ==
    /\ pc = "idle"
    /\ todo # <<>>
    /\ Played(Head(todo)[1]) < rounds
    /\ LET id1 == Head(todo)[1]
           id2 == Head(todo)[2]
       IN  IF id1 = id2 THEN reportMatch(id1, None)
           ELSE reportMatch(id1, id2) \/ reportMatch(id2, id1)
    /\ todo' = Tail(todo)
    /\ Discard
    /\ UNCHANGED <<players, apVars>>

ApOff == ap_lst = <<>> /\ ap_out = <<>> /\ ap_state = "off"

Init == EmptyDb /\ IdleCall /\ todo = <<>> /\ ApOff

----------------------------------------------------------------------------
\* A tournament run by a driver: players register before the first round,
\* then the driver alternates swissPairings with one report per pairing of
\* the list returned, in list order.

registerBeforeStart(limit) ==
    /\ matches = EmptyBag
    /\ todo = <<>>
    /\ registerPlayer(limit)

swissPairingsNextRound ==
    /\ todo = <<>>
    /\ swissPairings

Next ==
    \/ registerBeforeStart(MaxPlayers)
    \/ swissPairingsNextRound
    \/ swissPairingsLoop
    \/ reportPairing(MaxRounds)

Spec == Init /\ [][Next]_vars

\* The same tournament with the larger field.
NextBig ==
    \/ registerBeforeStart(BigPlayers)
    \/ swissPairingsNextRound
    \/ swissPairingsLoop
    \/ reportPairing(BigRounds)

SpecBig == Init /\ [][NextBig]_vars

\* Any caller: any registered players reported in any order, matches
\* deleted, swissPairings called at any time.

registerAny == registerPlayer(FreePlayers)

NextFree ==
    \/ registerAny
    \/ reportAnyMatch
    \/ deleteMatches
    \/ swissPairings
    \/ swissPairingsLoop

SpecFree == Init /\ [][NextFree]_vars

----------------------------------------------------------------------------
\* Vocabulary of the properties.  None of it is used by the operations.

\* A swissPairings call has just returned (or raised); every operation that
\* changes the database discards the result, so the database is still the
\* one the call read.
Returned == pc = "idle" /\ status # "none"

\* At least one match is recorded: the call took the later-round path.
LaterRound == matches # EmptyBag

HavePlayed(a, b) == <<a, b>> \in Records \/ <<b, a>> \in Records

IsBye(pairing) == pairing[1] = pairing[2]

PairingsWith(id) ==
    {k \in DOMAIN pairings : pairings[k][1] = id \/ pairings[k][2] = id}

\* Some partition of S into pairs none of which has already played.
RECURSIVE ExistsMatching(_)
ExistsMatching(S) ==
    \/ S = {}
    \/ /\ S # {}
       /\ LET a == MinOf(S)
          IN  \E b \in S \ {a} :
                  ~HavePlayed(a, b) /\ ExistsMatching(S \ {a, b})

RECURSIVE DoubleFactorial(_)
DoubleFactorial(n) == IF n <= 1 THEN 1 ELSE n * DoubleFactorial(n - 2)

Unordered(pairs) == {{pairs[k][1], pairs[k][2]} : k \in DOMAIN pairs}

\* sum over the buckets of position * size: how far up the ids sit.
RECURSIVE Height(_)
Height(wg) == IF wg = <<>> THEN 0 ELSE Len(wg) * Len(wg[Len(wg)]) + Height(SubSeq(wg, 1, Len(wg) - 1))

AllEven(wg) == \A k \in DOMAIN wg : Len(wg[k]) % 2 = 0

Leaders == {id \in Ids : \A other \in Ids : Wins(other) <= Wins(id)}

SameMatchCount == \A a, b \in Ids : Played(a) = Played(b)

\* The call got as far as the evenness pass.
ReachedPairing ==
    status \in {"pairings", "UnresolvablePairing", "IndexError", "ValueError"}

\* The win group of w wins once the bye player is taken out.
WinGroupOf(w) == {id \in Ids \ {bye_player_id} : Wins(id) = w}

GroupsResolvable ==
    \A id \in Ids :
        /\ Cardinality(WinGroupOf(Wins(id))) % 2 = 0
        /\ ExistsMatching(WinGroupOf(Wins(id)))

----------------------------------------------------------------------------
\* C1: a pairing list returned by swissPairings holds every registered
\* player in exactly one pairing (a two-player pairing or the self-paired
\* bye) and nobody else; a call that does not return a list returns no
\* pairings at all.
C1_EveryPlayerExactlyOnce ==
    Returned =>
        IF status = "pairings"
        THEN /\ \A id \in Ids : Cardinality(PairingsWith(id)) = 1
             /\ \A k \in DOMAIN pairings :
                    pairings[k][1] \in Ids /\ pairings[k][2] \in Ids
        ELSE pairings = <<>>

C1_Witness ==
    /\ Returned /\ status = "pairings" /\ LaterRound
    /\ bye_player_id # None /\ moves >= 3 /\ players >= 5

\* C2: after the first round no two-player pairing of a returned list joins
\* players who have a recorded match against each other.
C2_NoRematch ==
    Returned /\ status = "pairings" /\ LaterRound =>
        \A k \in DOMAIN pairings :
            ~IsBye(pairings[k]) => ~HavePlayed(pairings[k][1], pairings[k][2])

C2_Witness ==
    /\ Returned /\ status = "pairings" /\ LaterRound
    /\ moves >= 2 /\ Len(pairings) >= 3
    /\ \E a, b \in Ids : a # b /\ Wins(a) = Wins(b) /\ HavePlayed(a, b)

\* C3: no player ever has more than one bye match recorded; no step adds a
\* bye record for a player whose had_bye is already true (such a report
\* leaves the match records as they are); and after the first round the bye
\* pairing of a returned list goes to a player whose had_bye is false.
C3_AtMostOneBye ==
    /\ [](/\ \A id \in Ids : CopiesIn(<<id, None>>, matches) <= 1
          /\ Returned /\ status = "pairings" /\ LaterRound =>
                \A k \in DOMAIN pairings :
                    IsBye(pairings[k]) => pairings[k][1] \notin had_bye)
    /\ [][\A id \in had_bye :
              CopiesIn(<<id, None>>, matches') <= CopiesIn(<<id, None>>, matches)]_vars

C3_Witness ==
    /\ Returned /\ status = "pairings" /\ LaterRound
    /\ \E k \in DOMAIN pairings : IsBye(pairings[k])
    /\ \E id \in had_bye : CopiesIn(<<id, None>>, matches) = 1

\* C4 as claimed: when swissPairings gives up with UnresolvablePairing, the
\* players left after the bye cannot be partitioned into rematch-free pairs.
C4_UnresolvableMeansNoAssignment ==
    Returned /\ status = "UnresolvablePairing" =>
        ~ExistsMatching(Ids \ {bye_player_id})

\* C4 as amended: when swissPairings gives up with UnresolvablePairing, the
\* last bucket of the sequence as it then stands cannot be partitioned into
\* rematch-free pairs of its own members.
C4_UnresolvableMeansLastBucketStuck ==
    Returned /\ status = "UnresolvablePairing" =>
        /\ win_groups # <<>>
        /\ ~ExistsMatching(Range(TopGroup(win_groups)))

C4_Witness ==
    /\ Returned /\ status = "UnresolvablePairing"
    /\ ExistsMatching(Ids \ {bye_player_id})

\* C5: once a match is recorded and all players have played equally often,
\* swissPairings reports TournamentDecided exactly when one player alone has
\* the most wins, and then returns no pairing, not even a bye.
C5_DecidedIffSingleLeader ==
    Returned /\ LaterRound /\ SameMatchCount =>
        /\ (status = "TournamentDecided") <=> (Cardinality(Leaders) = 1)
        /\ status = "TournamentDecided" => pairings = <<>>

C5_Witness ==
    /\ Returned /\ status = "TournamentDecided"
    /\ players % 2 = 1 /\ players >= 3
    /\ Ids \ had_bye # {}

\* C6: the evenness pass always runs on an even number of ids (an even
\* field, or an odd one less the bye player); it never raises IndexError,
\* the only place in the prologue that can, and when it is done and the
\* while loop is entered every bucket has an even number of ids.
C6_EvennessPassCompletes ==
    [][pc = "idle" => /\ status' # "IndexError"
                      /\ pc' = "resolve" => AllEven(win_groups')]_vars

\* C7: a repair step (bucket idx failed and bucket idx + 1 exists) moves
\* exactly two ids from bucket idx + 1 to the end of bucket idx, drops
\* bucket idx + 1 if that empties it, changes no other bucket, keeps the ids
\* a duplicate-free family, and goes round the loop again with nothing but
\* the bye pairing kept.
C7_RepairMovesTwo ==
    [][(/\ pc = "resolve"
        /\ ~generate_pairings(win_groups).valueError
        /\ generate_pairings(win_groups).idx # NoIdx
        /\ generate_pairings(win_groups).idx + 2 <= Len(win_groups))
       => LET i == generate_pairings(win_groups).idx + 1
              donor == win_groups[i + 1]
              rest == SubSeq(donor, 3, Len(donor))
              grown == win_groups[i] \o SubSeq(donor, 1, 2)
          IN  /\ Len(donor) >= 2
              /\ pc' = "resolve"
              /\ pairings' = pairings
              /\ win_groups' =
                    SubSeq(win_groups, 1, i - 1) \o <<grown>>
                    \o (IF rest = <<>> THEN <<>> ELSE <<rest>>)
                    \o SubSeq(win_groups, i + 2, Len(win_groups))
              /\ Range(Flatten(win_groups')) = Range(Flatten(win_groups))
              /\ Cardinality(Range(Flatten(win_groups'))) = Len(Flatten(win_groups'))
      ]_vars

\* C8: on a list of 2k distinct ids all_pairs yields (2k-1)!! lists of
\* pairs, no two the same set of unordered pairs, each a partition of the
\* list into k pairs, the first one pairing the list consecutively; on a
\* list of odd length it raises and yields nothing.
C8_AllPairsEnumerates ==
    LET n == Len(ap_lst)
        IsPartition(pairs) ==
            /\ Len(pairs) = n \div 2
            /\ Cardinality(Unordered(pairs)) = n \div 2
            /\ \A pr \in Unordered(pairs) : Cardinality(pr) = 2
            /\ UNION Unordered(pairs) = Range(ap_lst)
    IN  /\ ap_state = "raised" => n % 2 = 1 /\ ap_out = <<>>
        /\ ap_state = "exhausted" =>
              /\ n % 2 = 0
              /\ Len(ap_out) = DoubleFactorial(n - 1)
              /\ \A j, k \in DOMAIN ap_out :
                     j # k => Unordered(ap_out[j]) # Unordered(ap_out[k])
        /\ \A j \in DOMAIN ap_out : IsPartition(ap_out[j])
        /\ ap_out # <<>> =>
              ap_out[1] = [k \in 1..(n \div 2) |-> <<ap_lst[2 * k - 1], ap_lst[2 * k]>>]

C8_Witness == ap_state = "exhausted" /\ Len(ap_lst) = 6 /\ Len(ap_out) = 15

\* C9: every iteration of the while loop either leaves swissPairings with a
\* pairing list or a failure, or repairs, and a repair strictly lowers the
\* height of the buckets (a natural number): the loop cannot run forever.
C9_LoopTerminates ==
    [][pc = "resolve" =>
          \/ pc' = "idle" /\ status' \in {"pairings", "UnresolvablePairing",
                                          "IndexError", "ValueError"}
          \/ /\ pc' = "resolve"
             /\ Height(win_groups') < Height(win_groups)
             /\ Height(win_groups') >= 0]_vars

C9_Witness ==
    /\ Returned /\ status = "pairings" /\ moves = 2
    /\ \E k \in DOMAIN win_groups : Len(win_groups[k]) >= 4

\* C10: after the first round, if every win group without the bye player is
\* even and has a rematch-free partition into pairs of its own members,
\* swissPairings borrows nothing and every two-player pairing it returns
\* joins players of equal wins.
C10_NoBorrowingWhenGroupsResolvable ==
    Returned /\ LaterRound /\ ReachedPairing /\ GroupsResolvable =>
        /\ status = "pairings"
        /\ moves = 0
        /\ \A k \in DOMAIN pairings :
               ~IsBye(pairings[k]) => Wins(pairings[k][1]) = Wins(pairings[k][2])

C10_Witness ==
    /\ Returned /\ LaterRound /\ status = "pairings" /\ GroupsResolvable
    /\ bye_player_id # None
    /\ \E j, k \in DOMAIN pairings :
          /\ ~IsBye(pairings[j]) /\ ~IsBye(pairings[k])
          /\ Wins(pairings[j][1]) # Wins(pairings[k][1])

====
